---- MODULE Spec2Model ----
(***************************************************************************)
(* Model of the offline licence tokens of python_key_generator:            *)
(* HardwareLicense.generate_license / verify_license (keygen_lock.py) and  *)
(* the licence tester's key-less payload decoder (license_tester.py).      *)
(*                                                                         *)
(* Text (str) is a sequence of code points, bytes a sequence of 0..255.    *)
(* A Python call either returns a value or raises: an operator that can    *)
(* raise returns [ok |-> FALSE, exc |-> message].                          *)
(***************************************************************************)
EXTENDS Integers, Sequences, FiniteSets, TLC

(***************************************************************************)
(* Bounds of the model (not program constants).                            *)
(***************************************************************************)
\* wall-clock days that pass after the first day of the session
MaxDays == 2

\* the last verify_license call on the token in hand: arguments and ambient reads
VARIABLE call

(***************************************************************************)
(* Character codes the code names.                                         *)
(***************************************************************************)
\* b"." : the separator between payload bytes and signature
Dot == 46
\* "=" : the base64 padding character
Pad == 61
\* digest()[:8] : bytes of the HMAC digest kept as the signature
SigLen == 8
\* hashlib.sha256 : digest size in bytes
DigestLen == 32
\* hexdigest()[:16] : characters of the hardware id
HwidLen == 16

Quote == 34
Backslash == 92

Range(s) == {s[i] : i \in 1..Len(s)}

\* Loops over a sequence are written by halving the index range, which keeps
\* the evaluation depth logarithmic in the length.
RECURSIVE FlatMap(_, _, _, _)
\* the concatenation of F(s[lo]), ..., F(s[hi])
FlatMap(F(_), s, lo, hi) ==
    IF lo > hi THEN <<>>
    ELSE IF lo = hi THEN F(s[lo])
    ELSE LET mid == (lo + hi) \div 2 IN
         FlatMap(F, s, lo, mid) \o FlatMap(F, s, mid + 1, hi)

RECURSIVE Fold(_, _, _, _, _, _)
\* Step(... Step(Step(st, s[lo]), s[lo + 1]) ..., s[hi]), ending at the first
\* state that satisfies Stop (the loop's break)
Fold(Step(_, _), Stop(_), st, s, lo, hi) ==
    IF lo > hi THEN st
    ELSE IF lo = hi THEN Step(st, s[lo])
    ELSE LET mid == (lo + hi) \div 2
             left == Fold(Step, Stop, st, s, lo, mid)
         IN  IF Stop(left) THEN left ELSE Fold(Step, Stop, left, s, mid + 1, hi)

RECURSIVE WSumRange(_, _, _, _)
\* sum of s[i] (w = 0) or of i * s[i] (w = 1) for i in lo..hi
WSumRange(s, lo, hi, w) ==
    IF lo > hi THEN 0
    ELSE IF lo = hi THEN (IF w = 0 THEN 1 ELSE lo) * s[lo]
    ELSE LET mid == (lo + hi) \div 2 IN
         WSumRange(s, lo, mid, w) + WSumRange(s, mid + 1, hi, w)

Sum(s) == WSumRange(s, 1, Len(s), 0)

\* sum of i * s[i], the position-weighted sum
WSum(s) == WSumRange(s, 1, Len(s), 1)

\* bytes.rstrip / str.rstrip(chars) for a single character
RECURSIVE rstrip(_, _)
rstrip(s, c) ==
    IF s /= <<>> /\ s[Len(s)] = c THEN rstrip(SubSeq(s, 1, Len(s) - 1), c) ELSE s

\* the indices of s that hold c
Positions(s, c) == {i \in 1..Len(s) : s[i] = c}

\* index of the last occurrence of c in s, 0 when absent (bytes.rfind + 1)
rfind(s, c) ==
    LET P == Positions(s, c) IN
    IF P = {} THEN 0 ELSE CHOOSE i \in P : \A j \in P : j <= i

\* index of the first occurrence of c in s at or after i, 0 when absent
find(s, c, i) ==
    LET P == {j \in Positions(s, c) : j >= i} IN
    IF P = {} THEN 0 ELSE CHOOSE j \in P : \A k \in P : j <= k

(***************************************************************************)
(* base64 (urlsafe alphabet), as base64.py and binascii.c compute it.      *)
(***************************************************************************)
\* the standard alphabet of base64.b64encode: A-Z a-z 0-9 + /
B64Char_std(v) ==
    IF v < 26 THEN 65 + v
    ELSE IF v < 52 THEN 97 + (v - 26)
    ELSE IF v < 62 THEN 48 + (v - 52)
    ELSE IF v = 62 THEN 43 ELSE 47

\* the urlsafe alphabet: A-Z a-z 0-9 - _
B64Char(v) ==
    IF v < 26 THEN 65 + v
    ELSE IF v < 52 THEN 97 + (v - 26)
    ELSE IF v < 62 THEN 48 + (v - 52)
    ELSE IF v = 62 THEN 45 ELSE 95

\* urlsafe_b64decode: translate "-_" to "+/", then binascii's table, in which
\* "+" and "/" are data characters too; 64 stands for "not in the alphabet"
B64Value(c) ==
    IF c >= 65 /\ c <= 90 THEN c - 65
    ELSE IF c >= 97 /\ c <= 122 THEN c - 97 + 26
    ELSE IF c >= 48 /\ c <= 57 THEN c - 48 + 52
    ELSE IF c = 45 \/ c = 43 THEN 62
    ELSE IF c = 95 \/ c = 47 THEN 63
    ELSE 64

\* base64.urlsafe_b64encode(data): 3 bytes -> 4 characters, "=" padded
urlsafe_b64encode(data) ==
    LET n == Len(data)
        nchars == (4 * n + 2) \div 3
        byte(i) == IF i <= n THEN data[i] ELSE 0
        sextet(k) ==
            LET bit == (k - 1) * 6
                i == (bit \div 8) + 1
                off == bit % 8
                two == byte(i) * 256 + byte(i + 1)
            IN  (two \div (2 ^ (10 - off))) % 64
    IN  [k \in 1..(4 * ((n + 2) \div 3)) |->
            IF k <= nchars THEN B64Char(sextet(k)) ELSE Pad]

\* binascii.a2b_base64 (strict_mode=False), one character at a time:
\* st = [quad_pos, leftchar, pads, out, done]
a2b_step(st, c) ==
    IF st.done THEN st
    ELSE IF c = Pad
    THEN IF st.quad_pos < 2 THEN st
         ELSE IF st.quad_pos + st.pads + 1 >= 4
         THEN [st EXCEPT !.done = TRUE, !.pads = st.pads + 1]
         ELSE [st EXCEPT !.pads = st.pads + 1]
    ELSE LET v == B64Value(c) IN
         IF v = 64 THEN st
         ELSE CASE st.quad_pos = 0 ->
                     [st EXCEPT !.quad_pos = 1, !.leftchar = v, !.pads = 0]
                [] st.quad_pos = 1 ->
                     [st EXCEPT !.quad_pos = 2, !.pads = 0,
                                !.out = Append(st.out, st.leftchar * 4 + (v \div 16)),
                                !.leftchar = v % 16]
                [] st.quad_pos = 2 ->
                     [st EXCEPT !.quad_pos = 3, !.pads = 0,
                                !.out = Append(st.out, st.leftchar * 16 + (v \div 4)),
                                !.leftchar = v % 4]
                [] OTHER ->
                     [st EXCEPT !.quad_pos = 0, !.pads = 0,
                                !.out = Append(st.out, st.leftchar * 64 + v),
                                !.leftchar = 0]

\* "goto done": a complete pad sequence ends the parse
a2b_done(st) == st.done

a2b_run(st, s) == Fold(a2b_step, a2b_done, st, s, 1, Len(s))

\* base64.urlsafe_b64decode(s) for bytes s: characters outside the alphabet are
\* discarded, not rejected (validate=False)
urlsafe_b64decode(s) ==
    LET st == a2b_run([quad_pos |-> 0, leftchar |-> 0, pads |-> 0,
                       out |-> <<>>, done |-> FALSE], s)
    IN  IF st.done \/ st.quad_pos = 0
        THEN [ok |-> TRUE, val |-> st.out]
        ELSE IF st.quad_pos = 1
        THEN [ok |-> FALSE, exc |-> "Invalid base64-encoded string"]
        ELSE [ok |-> FALSE, exc |-> "Incorrect padding"]

\* base64.urlsafe_b64decode(s) for str s: _bytes_from_decode_data encodes it as
\* ASCII first and raises ValueError on any other character
urlsafe_b64decode_str(s) ==
    IF \E i \in 1..Len(s) : s[i] > 127
    THEN [ok |-> FALSE, exc |-> "string argument should contain only ASCII characters"]
    ELSE urlsafe_b64decode(s)


(***************************************************************************)
(* Text helpers: str.encode / bytes.decode (UTF-8, code points below       *)
(* 0x800), str.upper, str(int), int parsing.                               *)
(***************************************************************************)
utf8_encode_char(c) ==
    IF c < 128 THEN <<c>> ELSE <<192 + (c \div 64), 128 + (c % 64)>>

utf8_encode(s) == FlatMap(utf8_encode_char, s, 1, Len(s))

\* one byte of bytes.decode("utf-8"); st = [ok, acc, lead], lead the pending
\* first byte of a two-byte sequence (0: none)
utf8_step(st, b) ==
    IF ~st.ok THEN st
    ELSE IF st.lead /= 0
    THEN IF b >= 128 /\ b <= 191
         THEN [st EXCEPT !.acc = Append(st.acc, (st.lead - 192) * 64 + (b - 128)),
                         !.lead = 0]
         ELSE [st EXCEPT !.ok = FALSE]
    ELSE IF b < 128 THEN [st EXCEPT !.acc = Append(st.acc, b)]
    ELSE IF b >= 194 /\ b <= 223 THEN [st EXCEPT !.lead = b]
    ELSE [st EXCEPT !.ok = FALSE]

utf8_failed(st) == ~st.ok

\* bytes.decode("utf-8"): raises UnicodeDecodeError on an invalid sequence
utf8_decode(b) ==
    LET st == Fold(utf8_step, utf8_failed,
                   [ok |-> TRUE, acc |-> <<>>, lead |-> 0], b, 1, Len(b)) IN
    IF st.ok /\ st.lead = 0 THEN [ok |-> TRUE, val |-> st.acc]
    ELSE [ok |-> FALSE, exc |-> "'utf-8' codec can't decode byte"]

\* str.upper(), one character: ASCII and Latin-1 letters
upper_char(c) ==
    IF c >= 97 /\ c <= 122 THEN <<c - 32>>
    ELSE IF c = 223 THEN <<83, 83>>
    ELSE IF c >= 224 /\ c <= 254 /\ c /= 247 THEN <<c - 32>>
    ELSE <<c>>

upper(s) == FlatMap(upper_char, s, 1, Len(s))

IsDigit(c) == c >= 48 /\ c <= 57

RECURSIVE nat_str(_)
nat_str(n) == IF n < 10 THEN <<48 + n>> ELSE Append(nat_str(n \div 10), 48 + (n % 10))

\* str(n) for an int
int_str(n) == IF n < 0 THEN <<45>> \o nat_str(0 - n) ELSE nat_str(n)

RECURSIVE digits_val(_, _)
digits_val(s, acc) ==
    IF s = <<>> THEN acc ELSE digits_val(Tail(s), acc * 10 + (Head(s) - 48))

HexDigit(v) == IF v < 10 THEN 48 + v ELSE 97 + (v - 10)

hex_byte(b) == <<HexDigit(b \div 16), HexDigit(b % 16)>>

\* bytes.hex(): two lowercase hex digits per byte
hex(b) == FlatMap(hex_byte, b, 1, Len(b))

(***************************************************************************)
(* Hashing.  SHA-256 cannot be computed here: sha256 is a deterministic    *)
(* stand-in with the same signature (bytes -> 32 bytes) whose first byte   *)
(* changes with every single-byte change of the data, so that what the     *)
(* checks decide is the code around the digest, never the digest.          *)
(***************************************************************************)
sha256(data) ==
    LET A == Sum(data)
        B == WSum(data)
        n == Len(data)
    IN  [j \in 1..DigestLen |->
            (17 * j + (2 * j - 1) * A + (j - 1) * B + 7 * n * j) % 256]

\* hmac.new(key, data, hashlib.sha256).digest()
hmac_sha256(key, data) == sha256(key \o data)

\* HardwareLicense._sign: the first 8 bytes of the digest
_sign(secret_key, data) == SubSeq(hmac_sha256(secret_key, data), 1, SigLen)

\* a comparison that stops after the first four bytes
compare_digest_prefix(a, b) ==
    /\ Len(a) = Len(b)
    /\ \A i \in 1..Len(a) : i <= 4 => a[i] = b[i]

\* hmac.compare_digest(a, b): equality of the two byte strings (of any lengths)
compare_digest(a, b) == a = b

(***************************************************************************)
(* get_hardware_id: a machine is [system, processor, node].                *)
(***************************************************************************)
\* "GENCPU", the stand-in for an empty platform.processor()
GENCPU == <<71, 69, 78, 67, 80, 85>>

\* uuid.getnode() answering with a fresh random node on a later call
get_hardware_id_unstable(m) ==
    LET cpu == IF m.processor = <<>> THEN GENCPU ELSE m.processor
        node == IF call.made THEN m.node + 1 ELSE m.node
        base == m.system \o <<45>> \o cpu \o <<45>> \o int_str(node)
    IN  upper(SubSeq(hex(sha256(utf8_encode(base))), 1, HwidLen))

get_hardware_id(m) ==
    LET cpu == IF m.processor = <<>> THEN GENCPU ELSE m.processor
        base == m.system \o <<45>> \o cpu \o <<45>> \o int_str(m.node)
    IN  upper(SubSeq(hex(sha256(utf8_encode(base))), 1, HwidLen))

(***************************************************************************)
(* json.dumps(payload, separators=(",", ":"), sort_keys=True)              *)
(***************************************************************************)
Hex4(c) ==
    <<HexDigit((c \div 4096) % 16), HexDigit((c \div 256) % 16),
      HexDigit((c \div 16) % 16), HexDigit(c % 16)>>

\* an encoder that keeps the separator out of strings: "." is written \u002e
json_escape_char_nodot(c) ==
    IF c = Quote THEN <<Backslash, Quote>>
    ELSE IF c = Backslash THEN <<Backslash, Backslash>>
    ELSE IF c = 10 THEN <<Backslash, 110>>
    ELSE IF c = 13 THEN <<Backslash, 114>>
    ELSE IF c = 9 THEN <<Backslash, 116>>
    ELSE IF c = 8 THEN <<Backslash, 98>>
    ELSE IF c = 12 THEN <<Backslash, 102>>
    ELSE IF c < 32 \/ c > 126 \/ c = Dot THEN <<Backslash, 117>> \o Hex4(c)
    ELSE <<c>>

\* json.encoder.py_encode_basestring_ascii, one character
json_escape_char(c) ==
    IF c = Quote THEN <<Backslash, Quote>>
    ELSE IF c = Backslash THEN <<Backslash, Backslash>>
    ELSE IF c = 10 THEN <<Backslash, 110>>
    ELSE IF c = 13 THEN <<Backslash, 114>>
    ELSE IF c = 9 THEN <<Backslash, 116>>
    ELSE IF c = 8 THEN <<Backslash, 98>>
    ELSE IF c = 12 THEN <<Backslash, 102>>
    ELSE IF c < 32 \/ c > 126 THEN <<Backslash, 117>> \o Hex4(c)
    ELSE <<c>>

json_escape(s) == FlatMap(json_escape_char, s, 1, Len(s))

json_str(s) == <<Quote>> \o json_escape(s) \o <<Quote>>

\* the keys of the payload, as text
K_exp == <<101, 120, 112>>
K_hwid == <<104, 119, 105, 100>>
K_product == <<112, 114, 111, 100, 117, 99, 116>>
K_users == <<117, 115, 101, 114, 115>>

\* the dict generate_license builds; a JSON value is [t, v] with v a sequence
JStr(s) == [t |-> "str", v |-> s]
JInt(n) == [t |-> "int", v |-> <<n>>]
JNull == [t |-> "null", v |-> <<>>]

\* the payload with the product as the caller spelled it
Payload_verbatim(product, expiry_date, max_users, hwid) ==
    (K_product :> JStr(product)) @@ (K_exp :> JStr(expiry_date))
        @@ (K_users :> JInt(max_users)) @@ (K_hwid :> JStr(hwid))

\* lines 87-92: the payload, with product.upper() and int(max_users)
Payload(product, expiry_date, max_users, hwid) ==
    (K_product :> JStr(upper(product))) @@ (K_exp :> JStr(expiry_date))
        @@ (K_users :> JInt(max_users)) @@ (K_hwid :> JStr(hwid))

\* json.dumps of that dict: keys sorted (exp < hwid < product < users), no spaces
json_dumps(payload) ==
    <<123>> \o json_str(K_exp) \o <<58>> \o json_str(payload[K_exp].v)
        \o <<44>> \o json_str(K_hwid) \o <<58>> \o json_str(payload[K_hwid].v)
        \o <<44>> \o json_str(K_product) \o <<58>> \o json_str(payload[K_product].v)
        \o <<44>> \o json_str(K_users) \o <<58>> \o int_str(payload[K_users].v[1])
        \o <<125>>

(***************************************************************************)
(* HardwareLicense.generate_license                                        *)
(***************************************************************************)
payload_bytes_of(product, expiry_date, max_users, hwid) ==
    utf8_encode(json_dumps(Payload(product, expiry_date, max_users, hwid)))

\* lines 94-95: sign, join with the separator, encode, strip the padding
pack(secret_key, payload_bytes) ==
    LET signature == _sign(secret_key, payload_bytes) IN
    rstrip(urlsafe_b64encode(payload_bytes \o <<Dot>> \o signature), Pad)

generate_license(secret_key, product, expiry_date, max_users, hwid) ==
    pack(secret_key, payload_bytes_of(product, expiry_date, max_users, hwid))

(***************************************************************************)
(* json.loads, for the documents the model feeds it: an object whose       *)
(* members are strings, integers or null, or one such scalar at top level  *)
(* (nested containers and floats are not among the modelled inputs).       *)
(* A parse step returns [ok, pos, ...]; pos is the index after the item.   *)
(***************************************************************************)
JSONDecodeError == [ok |-> FALSE, exc |-> "JSONDecodeError"]

IsWs(c) == c = 32 \/ c = 9 \/ c = 10 \/ c = 13

RECURSIVE skipws(_, _)
skipws(s, i) == IF i <= Len(s) /\ IsWs(s[i]) THEN skipws(s, i + 1) ELSE i

HexVal(c) ==
    IF IsDigit(c) THEN c - 48
    ELSE IF c >= 97 /\ c <= 102 THEN c - 87
    ELSE IF c >= 65 /\ c <= 70 THEN c - 55
    ELSE 16

\* json.decoder.py_scanstring (strict): s[i] is the character after the opening quote
RECURSIVE scanstring(_, _, _)
scanstring(s, i, acc) ==
    IF i > Len(s) THEN JSONDecodeError
    ELSE IF s[i] = Quote THEN [ok |-> TRUE, val |-> acc, pos |-> i + 1]
    ELSE IF s[i] < 32 THEN JSONDecodeError
    ELSE IF s[i] /= Backslash THEN scanstring(s, i + 1, Append(acc, s[i]))
    ELSE IF i + 1 > Len(s) THEN JSONDecodeError
    ELSE LET e == s[i + 1] IN
         IF e = Quote \/ e = Backslash \/ e = 47 THEN scanstring(s, i + 2, Append(acc, e))
         ELSE IF e = 110 THEN scanstring(s, i + 2, Append(acc, 10))
         ELSE IF e = 114 THEN scanstring(s, i + 2, Append(acc, 13))
         ELSE IF e = 116 THEN scanstring(s, i + 2, Append(acc, 9))
         ELSE IF e = 98 THEN scanstring(s, i + 2, Append(acc, 8))
         ELSE IF e = 102 THEN scanstring(s, i + 2, Append(acc, 12))
         ELSE IF e = 117 /\ i + 5 <= Len(s)
                 /\ \A k \in 2..5 : HexVal(s[i + k]) < 16
         THEN scanstring(s, i + 6,
                  Append(acc, HexVal(s[i + 2]) * 4096 + HexVal(s[i + 3]) * 256
                                + HexVal(s[i + 4]) * 16 + HexVal(s[i + 5])))
         ELSE JSONDecodeError

RECURSIVE digits_end(_, _)
digits_end(s, i) == IF i <= Len(s) /\ IsDigit(s[i]) THEN digits_end(s, i + 1) ELSE i

Lit_null == <<110, 117, 108, 108>>

\* a scalar value starting at s[i] (no leading whitespace)
scan_scalar(s, i) ==
    IF i > Len(s) THEN JSONDecodeError
    ELSE IF s[i] = Quote
    THEN LET r == scanstring(s, i + 1, <<>>) IN
         IF r.ok THEN [ok |-> TRUE, val |-> JStr(r.val), pos |-> r.pos] ELSE r
    ELSE IF IsDigit(s[i]) \/ (s[i] = 45 /\ i < Len(s) /\ IsDigit(s[i + 1]))
    THEN LET neg == s[i] = 45
             b == IF neg THEN i + 1 ELSE i
             e == IF s[b] = 48 THEN b + 1 ELSE digits_end(s, b)
             n == digits_val(SubSeq(s, b, e - 1), 0)
         IN  [ok |-> TRUE, val |-> JInt(IF neg THEN 0 - n ELSE n), pos |-> e]
    ELSE IF i + 3 <= Len(s) /\ SubSeq(s, i, i + 3) = Lit_null
    THEN [ok |-> TRUE, val |-> JNull, pos |-> i + 4]
    ELSE JSONDecodeError

\* the members of an object; s[i] is the character after "{" or after ","
RECURSIVE scan_members(_, _, _, _)
scan_members(s, i0, d, first) ==
    LET i == skipws(s, i0) IN
    IF i > Len(s) THEN JSONDecodeError
    ELSE IF first /\ s[i] = 125 THEN [ok |-> TRUE, d |-> d, pos |-> i + 1]
    ELSE IF s[i] /= Quote THEN JSONDecodeError
    ELSE LET k == scanstring(s, i + 1, <<>>) IN
         IF ~k.ok THEN k
         ELSE LET c == skipws(s, k.pos) IN
              IF c > Len(s) \/ s[c] /= 58 THEN JSONDecodeError
              ELSE LET v == scan_scalar(s, skipws(s, c + 1)) IN
                   IF ~v.ok THEN v
                   ELSE LET e == skipws(s, v.pos)
                            d2 == (k.val :> v.val) @@ d
                        IN  IF e > Len(s) THEN JSONDecodeError
                            ELSE IF s[e] = 125 THEN [ok |-> TRUE, d |-> d2, pos |-> e + 1]
                            ELSE IF s[e] = 44 THEN scan_members(s, e + 1, d2, FALSE)
                            ELSE JSONDecodeError

\* json.loads(s): [ok, isdict, d (the dict), val (the scalar)]
json_loads(s) ==
    LET i == skipws(s, 1) IN
    IF i > Len(s) THEN JSONDecodeError
    ELSE IF s[i] = 123
    THEN LET r == scan_members(s, i + 1, <<>>, TRUE) IN
         IF ~r.ok THEN r
         ELSE IF skipws(s, r.pos) <= Len(s) THEN JSONDecodeError
         ELSE [ok |-> TRUE, isdict |-> TRUE, d |-> r.d, val |-> JNull]
    ELSE LET r == scan_scalar(s, i) IN
         IF ~r.ok THEN r
         ELSE IF skipws(s, r.pos) <= Len(s) THEN JSONDecodeError
         ELSE [ok |-> TRUE, isdict |-> FALSE, d |-> <<>>, val |-> r.val]

(***************************************************************************)
(* Dates: datetime.strptime(s, "%Y-%m-%d").date() and date.toordinal().    *)
(***************************************************************************)
IsLeap(y) == y % 4 = 0 /\ (y % 100 /= 0 \/ y % 400 = 0)

DaysInMonth(y, m) ==
    IF m = 2 THEN (IF IsLeap(y) THEN 29 ELSE 28)
    ELSE IF m \in {4, 6, 9, 11} THEN 30 ELSE 31

RECURSIVE DaysBeforeMonth(_, _)
DaysBeforeMonth(y, m) ==
    IF m = 1 THEN 0 ELSE DaysBeforeMonth(y, m - 1) + DaysInMonth(y, m - 1)

\* datetime._ymd2ord
toordinal(y, m, d) ==
    LET p == y - 1 IN
    p * 365 + (p \div 4) - (p \div 100) + (p \div 400) + DaysBeforeMonth(y, m) + d

time_data_error == [ok |-> FALSE, exc |-> "time data does not match format '%Y-%m-%d'"]

\* _strptime with "%Y-%m-%d": \d\d\d\d - (1[0-2]|0[1-9]|[1-9]) - (3[01]|[12]\d|0[1-9]|[1-9]| [1-9])
\* and nothing after it; then date(y, m, d) must exist.  Returns the ordinal.
strptime_date(s) ==
    IF Len(s) < 8 \/ (\E i \in 1..4 : ~IsDigit(s[i])) \/ s[5] /= 45 THEN time_data_error
    ELSE LET dash == find(s, 45, 6)
             mtxt == SubSeq(s, 6, dash - 1)
             dtxt == SubSeq(s, dash + 1, Len(s))
             m_ok == \/ Len(mtxt) = 1 /\ mtxt[1] >= 49 /\ mtxt[1] <= 57
                     \/ Len(mtxt) = 2 /\ mtxt[1] = 48 /\ mtxt[2] >= 49 /\ mtxt[2] <= 57
                     \/ Len(mtxt) = 2 /\ mtxt[1] = 49 /\ mtxt[2] >= 48 /\ mtxt[2] <= 50
             d_ok == \/ Len(dtxt) = 1 /\ dtxt[1] >= 49 /\ dtxt[1] <= 57
                     \/ Len(dtxt) = 2 /\ dtxt[1] \in {32, 48} /\ dtxt[2] >= 49 /\ dtxt[2] <= 57
                     \/ Len(dtxt) = 2 /\ dtxt[1] \in {49, 50} /\ IsDigit(dtxt[2])
                     \/ Len(dtxt) = 2 /\ dtxt[1] = 51 /\ dtxt[2] \in {48, 49}
         IN  IF dash = 0 \/ ~m_ok \/ ~d_ok THEN time_data_error
             ELSE LET y == digits_val(SubSeq(s, 1, 4), 0)
                      m == digits_val(mtxt, 0)
                      d == digits_val(IF dtxt[1] = 32 THEN Tail(dtxt) ELSE dtxt, 0)
                  IN  IF y < 1 \/ d > DaysInMonth(y, m)
                      THEN [ok |-> FALSE, exc |-> "date value out of range"]
                      ELSE [ok |-> TRUE, val |-> toordinal(y, m, d)]

(***************************************************************************)
(* HardwareLicense.verify_license.  A result is the dict the code returns, *)
(* with the code's keys; a reason is [fmt, arg, exc]: the message text,    *)
(* the value formatted into it and the caught exception's message.         *)
(* An exception that leaves a call is the outcome [raised |-> message].    *)
(***************************************************************************)
Reason(fmt) == [fmt |-> fmt, arg |-> <<>>, exc |-> ""]

\* a failure return that fills in every field of a result
Fail_full(reason) ==
    [valid |-> FALSE, grace |-> FALSE, days_left |-> 0, reason |-> reason]

\* the failure returns: {"valid": False, "reason": ...}
Fail(reason) == [valid |-> FALSE, reason |-> reason]

Raised(exc) == [raised |-> exc]

Lit_None == <<78, 111, 110, 101>>

\* str(payload.get("hwid"))
str_of(d, k) ==
    IF k \notin DOMAIN d \/ d[k].t = "null" THEN Lit_None
    ELSE IF d[k].t = "int" THEN int_str(d[k].v[1])
    ELSE d[k].v

\* lines 123-144 with the grace period entered on the expiry date itself
\* (days_left <= 0 in place of days_left < 0)
decide_grace_on_expiry_day(payload, exp_date, today, grace_days, current_hwid) ==
    LET days_left == exp_date - today IN
    IF days_left <= 0
    THEN LET grace_remaining == grace_days + days_left IN
         IF grace_remaining >= 0
         THEN [valid |-> TRUE, grace |-> TRUE, days_left |-> grace_remaining,
               reason |-> Reason("License expired but within grace period"),
               info |-> payload]
         ELSE Fail(Reason("License and grace period expired"))
    ELSE IF K_hwid \notin DOMAIN payload \/ payload[K_hwid] /= JStr(current_hwid)
    THEN Fail([fmt |-> "Hardware mismatch (expected {})",
               arg |-> str_of(payload, K_hwid), exc |-> ""])
    ELSE [valid |-> TRUE, grace |-> FALSE, days_left |-> days_left,
          reason |-> Reason("License valid"), info |-> payload]

\* lines 123-144 with a mismatch reason that also names the host's own id:
\* "Hardware mismatch (expected {}, got <current_hwid>)"
decide_disclosing(payload, exp_date, today, grace_days, current_hwid) ==
    LET days_left == exp_date - today IN
    IF days_left < 0
    THEN LET grace_remaining == grace_days + days_left IN
         IF grace_remaining >= 0
         THEN [valid |-> TRUE, grace |-> TRUE, days_left |-> grace_remaining,
               reason |-> Reason("License expired but within grace period"),
               info |-> payload]
         ELSE Fail(Reason("License and grace period expired"))
    ELSE IF K_hwid \notin DOMAIN payload \/ payload[K_hwid] /= JStr(current_hwid)
    THEN Fail([fmt |-> "Hardware mismatch (expected {})",
               arg |-> str_of(payload, K_hwid) \o <<44, 32, 103, 111, 116, 32>>
                           \o current_hwid,
               exc |-> ""])
    ELSE [valid |-> TRUE, grace |-> FALSE, days_left |-> days_left,
          reason |-> Reason("License valid"), info |-> payload]

\* lines 126-144: the expiry check, then the hardware check
decide(payload, exp_date, today, grace_days, current_hwid) ==
    LET days_left == exp_date - today IN
    IF days_left < 0
    THEN LET grace_remaining == grace_days + days_left IN
         IF grace_remaining >= 0
         THEN [valid |-> TRUE, grace |-> TRUE, days_left |-> grace_remaining,
               reason |-> Reason("License expired but within grace period"),
               info |-> payload]
         ELSE Fail(Reason("License and grace period expired"))
    ELSE IF K_hwid \notin DOMAIN payload \/ payload[K_hwid] /= JStr(current_hwid)
    THEN Fail([fmt |-> "Hardware mismatch (expected {})",
               arg |-> str_of(payload, K_hwid), exc |-> ""])
    ELSE [valid |-> TRUE, grace |-> FALSE, days_left |-> days_left,
          reason |-> Reason("License valid"), info |-> payload]

\* lines 120-144: what follows a matching signature
check_payload(payload_bytes, grace_days, today, machine) ==
    LET text == utf8_decode(payload_bytes) IN
    IF ~text.ok THEN Raised(text.exc)
    ELSE LET js == json_loads(text.val) IN
         IF ~js.ok THEN Raised(js.exc)
         ELSE IF ~js.isdict THEN Raised("TypeError: payload is not subscriptable by 'exp'")
         ELSE IF K_exp \notin DOMAIN js.d THEN Raised("'exp'")
         ELSE IF js.d[K_exp].t /= "str" THEN Raised("strptime() argument 1 must be str")
         ELSE LET exp_date == strptime_date(js.d[K_exp].v) IN
              IF ~exp_date.ok THEN Raised(exp_date.exc)
              ELSE decide(js.d, exp_date.val, today, grace_days, get_hardware_id(machine))

\* raw.rsplit(b".", 1) for raw that holds a "."
rsplit_dot(raw) ==
    LET cut == rfind(raw, Dot) IN
    <<SubSeq(raw, 1, cut - 1), SubSeq(raw, cut + 1, Len(raw))>>

\* lines 110-111: re-pad and decode
decode_token(token) ==
    LET padding == [k \in 1..((4 - (Len(token) % 4)) % 4) |-> Pad] IN
    urlsafe_b64decode_str(token \o padding)

\* the body of the try block with the payload read before the tag is compared
verify_body_payload_first(secret_key, token, grace_days, today, machine) ==
    LET dec == decode_token(token) IN
    IF ~dec.ok THEN Raised(dec.exc)
    ELSE IF Dot \notin Range(dec.val) THEN Fail(Reason("Invalid token format"))
    ELSE LET parts == rsplit_dot(dec.val)
             checked == check_payload(parts[1], grace_days, today, machine)
         IN  IF "raised" \in DOMAIN checked THEN checked
             ELSE IF ~compare_digest(parts[2], _sign(secret_key, parts[1]))
             THEN Fail(Reason("Invalid signature"))
             ELSE checked

\* lines 110-144: the body of the try block
verify_body(secret_key, token, grace_days, today, machine) ==
    LET dec == decode_token(token) IN
    IF ~dec.ok THEN Raised(dec.exc)
    ELSE IF Dot \notin Range(dec.val) THEN Fail(Reason("Invalid token format"))
    ELSE LET parts == rsplit_dot(dec.val)
             payload_bytes == parts[1]
             signature == parts[2]
             expected_sig == _sign(secret_key, payload_bytes)
         IN  IF ~compare_digest(signature, expected_sig)
             THEN Fail(Reason("Invalid signature"))
             ELSE check_payload(payload_bytes, grace_days, today, machine)

\* "except ValueError", which lets KeyError and TypeError through
handler_ValueError(out) ==
    IF "raised" \in DOMAIN out
       /\ out.raised \notin {"'exp'", "strptime() argument 1 must be str",
                              "TypeError: payload is not subscriptable by 'exp'"}
    THEN Fail([fmt |-> "Verification failed: {}", arg |-> <<>>, exc |-> out.raised])
    ELSE out

\* lines 146-147: except Exception as e
handler(out) ==
    IF "raised" \in DOMAIN out
    THEN Fail([fmt |-> "Verification failed: {}", arg |-> <<>>, exc |-> out.raised])
    ELSE out

\* today is datetime.now().date().toordinal() and machine the host, both read
\* inside the routine; the caller passes token and grace_days only
verify_license(secret_key, token, grace_days, today, machine) ==
    handler(verify_body(secret_key, token, grace_days, today, machine))

(***************************************************************************)
(* LicenseTester.decode_token_payload: None is [none |-> TRUE]             *)
(***************************************************************************)
None == [none |-> TRUE]

\* raw.split(b"."): the pieces between the separators
split_dot(raw) ==
    LET P == Positions(raw, Dot)
        nth(k) == CHOOSE i \in P : Cardinality({j \in P : j <= i}) = k
        n == Cardinality(P)
    IN  [k \in 1..(n + 1) |->
            SubSeq(raw, IF k = 1 THEN 1 ELSE nth(k - 1) + 1,
                        IF k = n + 1 THEN Len(raw) ELSE nth(k) - 1)]

decode_token_payload(token) ==
    LET dec == urlsafe_b64decode(utf8_encode(token)) IN
    IF ~dec.ok THEN None
    ELSE LET parts == split_dot(dec.val) IN
         IF Len(parts) /= 2 THEN None
         ELSE LET text == utf8_decode(parts[1]) IN
              IF ~text.ok THEN None
              ELSE LET js == json_loads(text.val) IN
                   IF ~js.ok THEN None
                   ELSE IF js.isdict THEN [none |-> FALSE, d |-> js.d]
                   ELSE [none |-> FALSE, val |-> js.val]

(***************************************************************************)
(* The inputs the model draws from.                                        *)
(***************************************************************************)
\* SECRET_KEY's default "ExampleKey123!" (keygen_lock.py line 35) and "Key5"
Keys == {<<69, 120, 97, 109, 112, 108, 101, 75, 101, 121, 49, 50, 51, 33>>,
         <<75, 101, 121, 53>>}

\* the hosts: Linux / x86_64 / node 1 and Windows / no processor name / node 2
Machines ==
    <<[system |-> <<76, 105, 110, 117, 120>>, processor |-> <<120, 56, 54, 95, 54, 52>>,
       node |-> 1],
      [system |-> <<87, 105, 110, 100, 111, 119, 115>>, processor |-> <<>>, node |-> 2]>>

MachineIds == 1..Len(Machines)

\* "demo" and "V1.0"
Products == {<<100, 101, 109, 111>>, <<86, 49, 46, 48>>}

\* the tester's products: those and "demo12"
TesterProducts == Products \cup {<<100, 101, 109, 111, 49, 50>>}

\* "2030-01-01", "2029-12-02", "2029-11-25" and the unparsable "2030-13-01"
Expiries == {<<50, 48, 51, 48, 45, 48, 49, 45, 48, 49>>,
             <<50, 48, 50, 57, 45, 49, 50, 45, 48, 50>>,
             <<50, 48, 50, 57, 45, 49, 49, 45, 50, 53>>,
             <<50, 48, 51, 48, 45, 49, 51, 45, 48, 49>>}

Seats == {5}

\* grace_days: none, and the default of verify_license
DefaultGrace == 7
GraceDays == {0, DefaultGrace}

\* the first day of a session: 2029-12-02
Day0 == toordinal(2029, 12, 2)

\* key texts a user can paste: "", "A", "AAAA", "!!!!", "Lg" (a lone "."), "e-acute"
PastedTexts == {<<>>, <<65>>, <<65, 65, 65, 65>>, <<33, 33, 33, 33>>, <<76, 103>>, <<233>>}

\* payload bytes that no generate_license call produces: b"\xff", b"5",
\* {"hwid":"A"}, {"exp":5}, {"exp":"2030-01-01" (unclosed) and {"exp":"2030-01-01"}
RawPayloads ==
    {<<255>>, <<53>>,
     <<123, 34, 104, 119, 105, 100, 34, 58, 34, 65, 34, 125>>,
     <<123, 34, 101, 120, 112, 34, 58, 53, 125>>,
     <<123, 34, 101, 120, 112, 34, 58, 34, 50, 48, 51, 48, 45, 48, 49, 45, 48, 49, 34>>,
     <<123, 34, 101, 120, 112, 34, 58, 34, 50, 48, 51, 48, 45, 48, 49, 45, 48, 49, 34, 125>>}

\* characters that get into a key text in transit: "!!!!", four spaces, one
\* newline, and "+/+/" (the standard alphabet's two extra characters)
Junk == {<<33, 33, 33, 33>>, <<32, 32, 32, 32>>, <<10>>, <<43, 47, 43, 47>>}

\* the texts of key files: a licence of "demo" for host 1 that ends on
\* 2030-01-01 and one for host 2 that ended on 2029-11-25, each with the newline
\* that ends the file, and "A"
KeyTexts(k) ==
    {generate_license(k, <<100, 101, 109, 111>>,
                      <<50, 48, 51, 48, 45, 48, 49, 45, 48, 49>>, 5,
                      get_hardware_id(Machines[1])) \o <<10>>,
     generate_license(k, <<100, 101, 109, 111>>,
                      <<50, 48, 50, 57, 45, 49, 49, 45, 50, 53>>, 5,
                      get_hardware_id(Machines[2])) \o <<10>>,
     <<65>>}

\* what the folder can hold at startup: "A" with a newline
FolderTexts == {<<65, 10>>}

\* those payload bytes and {"exp":"2029-11-25"}
SignedPayloads ==
    RawPayloads \cup
    {<<123, 34, 101, 120, 112, 34, 58, 34, 50, 48, 50, 57, 45, 49, 49, 45, 50, 53, 34, 125>>}

\* spellings of one product name: "demo", "Demo", "DEMO"; and "V1.0"
SpelledProducts ==
    {<<100, 101, 109, 111>>, <<68, 101, 109, 111>>, <<68, 69, 77, 79>>, <<86, 49, 46, 48>>}

\* byte values a tampering writes: ".", NUL, 0xff; the low bit flipped is added
TamperBytes == {Dot, 0, 255}

FlipLowBit(b) == IF b % 2 = 0 THEN b + 1 ELSE b - 1

(***************************************************************************)
(* State.                                                                  *)
(***************************************************************************)
VARIABLES
    secret_key,  \* self.secret_key of the HardwareLicense object
    today,       \* the wall clock's date, as an ordinal (datetime.now().date())
    machine,     \* the host the program runs on (index into Machines)
    token,       \* the licence key text in hand
    origin,      \* where token came from: the arguments that issued it
    result,      \* what that call returned
    repeated,    \* the last call had the arguments and ambient reads of the one before
    inspected,   \* what decode_token_payload returned for token
    license_key, \* the file license.key in the tester's folder
    key_files,   \* the texts of the other .key files in the tester's folder
    tester       \* the tester's last handler: what it did and what it shows

\* the tester's folder and window
tester_state == <<license_key, key_files, tester>>

vars == <<secret_key, today, machine, token, origin, call, result, repeated, inspected,
          license_key, key_files, tester>>

\* no such file
NoFile == [exists |-> FALSE]
File(text) == [exists |-> TRUE, text |-> text]

\* LicenseTester.__init__ before check_license_file: nothing verified, nothing shown
NoTester ==
    [via |-> "none", status |-> "", last_used_path |-> "None", save_failed |-> FALSE,
     before |-> NoFile]

NoOrigin ==
    [kind |-> "none", product |-> <<>>, expiry_date |-> <<>>, max_users |-> 0,
     hwid |-> <<>>, at |-> 0]
NoCall == [made |-> FALSE, grace_days |-> 0, today |-> 0, machine |-> 0]
NoResult == [none |-> TRUE]
NotInspected == [pending |-> TRUE]

Init ==
    /\ secret_key \in Keys
    /\ today = Day0
    /\ machine \in MachineIds
    /\ token = <<>>
    /\ origin = NoOrigin
    /\ call = NoCall
    /\ result = NoResult
    /\ repeated = FALSE
    /\ inspected = NotInspected
    /\ license_key = NoFile
    /\ key_files = {}
    /\ tester = NoTester

\* a new key text in hand: nothing is known about it yet
Fresh ==
    /\ call' = NoCall
    /\ result' = NoResult
    /\ repeated' = FALSE
    /\ inspected' = NotInspected

\* generate_license(product, expiry_date, max_users, hwid) for the host m.
\* A session follows one key text: verify_license keeps nothing between calls,
\* and a second key text would start again from a state a first one reaches.
GenerateFrom(P) ==
    \E product \in P, expiry_date \in Expiries, max_users \in Seats, m \in MachineIds :
        LET hwid == get_hardware_id(Machines[m]) IN
        /\ origin.kind = "none"
        /\ token' = generate_license(secret_key, product, expiry_date, max_users, hwid)
        /\ origin' = [kind |-> "issued", product |-> product,
                      expiry_date |-> expiry_date, max_users |-> max_users,
                      hwid |-> hwid, at |-> 0]
        /\ Fresh
        /\ UNCHANGED <<secret_key, today, machine>>
        /\ UNCHANGED tester_state

Generate == GenerateFrom(Products)

GenerateForTester == GenerateFrom(TesterProducts)

\* the user pastes a key text: any string, or foreign payload bytes under a good tag
Paste ==
    \E text \in PastedTexts \cup {pack(secret_key, pb) : pb \in RawPayloads} :
        /\ origin.kind = "none"
        /\ token' = text
        /\ origin' = [NoOrigin EXCEPT !.kind = "pasted"]
        /\ Fresh
        /\ UNCHANGED <<secret_key, today, machine>>
        /\ UNCHANGED tester_state

\* one byte of the decoded payload or tag of an issued token is overwritten
\* and the bytes are encoded again
Tamper ==
    /\ origin.kind = "issued"
    /\ LET raw == decode_token(token).val
           sep == Len(raw) - SigLen
       IN  \E i \in (1..Len(raw)) \ {sep} :
           \E b \in (TamperBytes \cup {FlipLowBit(raw[i])}) \ {raw[i]} :
               /\ token' = rstrip(urlsafe_b64encode([raw EXCEPT ![i] = b]), Pad)
               /\ origin' = [origin EXCEPT !.kind = "tampered", !.at = i]
    /\ Fresh
    /\ UNCHANGED <<secret_key, today, machine>>
    /\ UNCHANGED tester_state

\* the user pastes foreign payload bytes packed under the tag of some key: the
\* verifier's (a good tag) or another (a bad tag)
PasteSigned ==
    \E k \in Keys, pb \in SignedPayloads :
        /\ origin.kind = "none"
        /\ token' = pack(k, pb)
        /\ origin' = [NoOrigin EXCEPT !.kind = "signed"]
        /\ Fresh
        /\ UNCHANGED <<secret_key, today, machine>>
        /\ UNCHANGED tester_state

GenerateSpelled == GenerateFrom(SpelledProducts)

\* generate_license again, with the arguments of the token in hand but the
\* product spelled another way
Reissue ==
    /\ origin.kind = "issued"
    /\ \E product \in SpelledProducts \ {origin.product} :
        /\ upper(product) = upper(origin.product)
        /\ token' = generate_license(secret_key, product, origin.expiry_date,
                                     origin.max_users, origin.hwid)
        /\ origin' = [origin EXCEPT !.kind = "reissued", !.product = product]
    /\ Fresh
    /\ UNCHANGED <<secret_key, today, machine>>
    /\ UNCHANGED tester_state

\* characters get into the text of an issued token, at its start, middle or end,
\* before it is handed to verify_license
Garble ==
    /\ origin.kind = "issued"
    /\ \E junk \in Junk, i \in {0, Len(token) \div 2, Len(token)} :
        /\ token' = SubSeq(token, 1, i) \o junk \o SubSeq(token, i + 1, Len(token))
        /\ origin' = [origin EXCEPT !.kind = "garbled", !.at = i]
    /\ Fresh
    /\ UNCHANGED <<secret_key, today, machine>>
    /\ UNCHANGED tester_state

\* verify_license(token, grace_days): reads the clock and the host itself
Verify ==
    /\ origin.kind /= "none"
    /\ \E grace_days \in GraceDays :
        /\ call' = [made |-> TRUE, grace_days |-> grace_days, today |-> today,
                    machine |-> machine]
        /\ repeated' = (call' = call)
        /\ result' = verify_license(secret_key, token, grace_days, today,
                                    Machines[machine])
    /\ UNCHANGED <<secret_key, today, machine, token, origin, inspected>>
    /\ UNCHANGED tester_state

\* LicenseTester.inspect_key_dialog: decode the payload without the key
Inspect ==
    /\ origin.kind /= "none"
    /\ inspected' = decode_token_payload(token)
    /\ UNCHANGED <<secret_key, today, machine, token, origin, call, result, repeated>>
    /\ UNCHANGED tester_state

\* midnight passes
Tick ==
    /\ today < Day0 + MaxDays
    /\ today' = today + 1
    /\ UNCHANGED <<secret_key, machine, token, origin, call, result, repeated, inspected>>
    /\ UNCHANGED tester_state

\* the key file is carried to the other host
Move ==
    /\ \E m \in MachineIds \ {machine} : machine' = m
    /\ UNCHANGED <<secret_key, today, token, origin, call, result, repeated, inspected>>
    /\ UNCHANGED tester_state

Next == Generate \/ Paste \/ Verify \/ Tick \/ Move

\* a session of issuing, pasting and verifying while days pass and hosts change
Spec == Init /\ [][Next]_vars

\* tampering: an issued token in hand on the first day
InitTamper ==
    /\ secret_key \in Keys
    /\ today = Day0
    /\ machine = 2
    /\ \E product \in Products, m \in MachineIds :
        LET hwid == get_hardware_id(Machines[m])
            expiry_date == <<50, 48, 51, 48, 45, 48, 49, 45, 48, 49>>
        IN  /\ token = generate_license(secret_key, product, expiry_date, 5, hwid)
            /\ origin = [kind |-> "issued", product |-> product,
                         expiry_date |-> expiry_date, max_users |-> 5,
                         hwid |-> hwid, at |-> 0]
    /\ call = NoCall
    /\ result = NoResult
    /\ repeated = FALSE
    /\ inspected = NotInspected
    /\ license_key = NoFile
    /\ key_files = {}
    /\ tester = NoTester

NextTamper == Tamper \/ Verify

SpecTamper == InitTamper /\ [][NextTamper]_vars

NextTester == GenerateForTester \/ Inspect

\* the tester's Inspect button on issued keys
SpecTester == Init /\ [][NextTester]_vars

(***************************************************************************)
(* The licence tester (license_tester.py).                                 *)
(***************************************************************************)
\* the whitespace str.strip() removes (ASCII)
IsSpace(c) == c \in {9, 10, 11, 12, 13, 32}

\* f.read().strip() / txt.get("1.0", "end").strip()
strip(s) ==
    LET kept == {i \in 1..Len(s) : ~IsSpace(s[i])}
    IN  IF kept = {} THEN <<>>
        ELSE LET lo == CHOOSE i \in kept : \A j \in kept : i <= j
                 hi == CHOOSE i \in kept : \A j \in kept : i >= j
             IN  SubSeq(s, lo, hi)

\* the title update_status shows for a result (lines 156-172)
status_of(res) ==
    IF ~res.valid THEN "INVALID"
    ELSE IF res.grace THEN "EXPIRED (Grace Active)"
    ELSE "LICENSE VALID"

\* a save that happens after every valid verdict, asked for or not
write_key_always(res, key, save_on_success, write_ok, old) ==
    IF res.valid /\ write_ok THEN File(key) ELSE old

\* lines 175-178 and 185: license.key after the verdict; the write can fail
write_key(res, key, save_on_success, write_ok, old) ==
    IF res.valid /\ save_on_success /\ write_ok THEN File(key) ELSE old

\* what a handler does once it has its key text: it calls
\* LicenseTester.verify_license(key, save_on_success, source_path) with
\* last_used_path as the handler left it (path), or returns showing a status
Call(via, text, save_on_success, source_path, path) ==
    [verify |-> TRUE, via |-> via, key |-> strip(text),
     save_on_success |-> save_on_success, source_path |-> source_path, path |-> path,
     status |-> ""]

Return(via, status) ==
    [verify |-> FALSE, via |-> via, key |-> <<>>, save_on_success |-> FALSE,
     source_path |-> "None", path |-> "None", status |-> status]

\* check_license_file: at startup and on "Recheck License" (the files are readable)
CheckLicenseFile ==
    IF license_key.exists
    THEN {Call("check", license_key.text, TRUE, "license.key", tester.last_used_path)}
    ELSE IF key_files /= {}
    THEN {Call("check", text, TRUE, "found.key", "found.key") : text \in key_files}
    ELSE {Return("check", "License missing")}

\* load_key_file: "Load .key File" with a file chosen in the dialog
LoadKeyFile ==
    {Call("load", text, TRUE, "chosen.key", tester.last_used_path) :
        text \in KeyTexts(secret_key)}

\* paste_key_dialog.verify_paste: "Paste License Key", then "Verify"
PasteKey ==
    {IF strip(text) = <<>>
     THEN Return("paste", tester.status)
     ELSE Call("paste", text, FALSE, "None", tester.last_used_path) :
        text \in KeyTexts(secret_key) \cup {<<32, 10>>}}

\* LicenseTester.verify_license(key, save_on_success, source_path)
TesterVerify(rq) ==
    \E res \in {verify_license(secret_key, rq.key, DefaultGrace, today,
                                Machines[machine])} :
        \E write_ok \in IF res.valid /\ rq.save_on_success THEN BOOLEAN ELSE {TRUE} :
        /\ token' = rq.key
        /\ origin' = [NoOrigin EXCEPT !.kind = "tester"]
        /\ call' = [made |-> TRUE, grace_days |-> DefaultGrace, today |-> today,
                    machine |-> machine]
        /\ repeated' = (call' = call)
        /\ result' = res
        /\ inspected' = NotInspected
        /\ license_key' = write_key(res, rq.key, rq.save_on_success, write_ok,
                                    license_key)
        /\ tester' = [via |-> rq.via,
                      status |-> status_of(res),
                      last_used_path |->
                          IF res.valid /\ rq.save_on_success /\ write_ok
                          THEN rq.source_path ELSE rq.path,
                      save_failed |-> res.valid /\ rq.save_on_success /\ ~write_ok,
                      before |-> license_key]
        /\ UNCHANGED <<secret_key, today, machine, key_files>>

\* a handler that returns before it verifies anything
TesterReturn(rq) ==
    /\ token' = <<>>
    /\ origin' = [NoOrigin EXCEPT !.kind = "tester"]
    /\ Fresh
    /\ tester' = [tester EXCEPT !.via = rq.via, !.status = rq.status,
                                !.save_failed = FALSE, !.before = license_key]
    /\ UNCHANGED <<secret_key, today, machine, license_key, key_files>>

\* one button of the tester's window (or its startup): the handler runs to its end
TesterHandler ==
    \E rq \in CheckLicenseFile \cup LoadKeyFile \cup PasteKey :
        IF rq.verify THEN TesterVerify(rq) ELSE TesterReturn(rq)

\* the tester's folder at startup: license.key and one other .key file, each
\* there or not
InitPersist ==
    /\ secret_key \in Keys
    /\ today = Day0
    /\ machine \in MachineIds
    /\ token = <<>>
    /\ origin = NoOrigin
    /\ call = NoCall
    /\ result = NoResult
    /\ repeated = FALSE
    /\ inspected = NotInspected
    /\ license_key \in {NoFile} \cup {File(t) : t \in FolderTexts}
    /\ key_files \in {{}} \cup {{t} : t \in FolderTexts}
    /\ tester = NoTester

NextPersist == TesterHandler

\* the tester's window: recheck, load and paste
SpecPersist == InitPersist /\ [][NextPersist]_vars

NextProduct == GenerateSpelled \/ Reissue \/ Verify

\* issuing one licence under several spellings of the product, and verifying
SpecProduct == Init /\ [][NextProduct]_vars

NextText == Generate \/ Paste \/ PasteSigned \/ Garble \/ Verify

\* key texts as they reach verify_license: issued, pasted, or garbled in transit
SpecText == Init /\ [][NextText]_vars

(***************************************************************************)
(* Properties.                                                             *)
(***************************************************************************)
Issued == origin.kind = "issued"

\* the payload generate_license signed for the token in hand
IssuedPayload ==
    Payload(origin.product, origin.expiry_date, origin.max_users, origin.hwid)

\* the expiry date of the issued token, when it is a date
Expiry == strptime_date(origin.expiry_date)

\* the last call ran on the host the token is locked to
OnLockedHost == get_hardware_id(Machines[call.machine]) = origin.hwid

\* C1: an issued token with a well-formed expiry, verified with the issuing key
\* on the host it is locked to and on a date not after the expiry, is valid,
\* not in grace, with days_left = expiry - date (0 on the expiry date itself).
C1_VerificationSoundness ==
    (Issued /\ call.made /\ Expiry.ok /\ call.today <= Expiry.val /\ OnLockedHost)
        => /\ result.valid
           /\ result.grace = FALSE
           /\ result.days_left = Expiry.val - call.today

\* C2: after one byte of the payload or of the tag of an issued token has been
\* changed (to any value, "." included), verify_license answers
\* valid = false, "Invalid signature".
C2_TamperDetected ==
    (origin.kind = "tampered" /\ call.made)
        => result = [valid |-> FALSE, reason |-> Reason("Invalid signature")]

\* a tag byte was overwritten with "." and the token was verified
C2_Witness ==
    /\ origin.kind = "tampered"
    /\ call.made
    /\ LET raw == decode_token(token).val IN
       /\ origin.at > Len(raw) - SigLen
       /\ raw[origin.at] = Dot
    /\ result.reason.fmt = "Invalid signature"

\* C3: decode_token_payload returns the issued payload for every issued token.
C3_PayloadRoundTrip ==
    (Issued /\ inspected /= NotInspected)
        => inspected = [none |-> FALSE, d |-> IssuedPayload]

\* C4: every verify_license call returns a dict; no exception leaves it, and a
\* failure is valid = false with a reason.
C4_NeverRaises ==
    call.made
        => /\ "raised" \notin DOMAIN result
           /\ "valid" \in DOMAIN result
           /\ result.valid \in BOOLEAN
           /\ ~result.valid => /\ "reason" \in DOMAIN result
                               /\ result.reason.fmt \in STRING

\* a KeyError (no "exp" in a payload under a good tag) was caught
C4_Witness ==
    /\ origin.kind = "pasted"
    /\ call.made
    /\ result.valid = FALSE
    /\ result.reason.exc = "'exp'"

\* C5: an issued token verified on its host d >= 1 days after the expiry with
\* grace_days = g: valid, in grace, days_left = g - d when d <= g; invalid
\* when d > g.
C5_GraceBoundary ==
    (Issued /\ call.made /\ Expiry.ok /\ call.today > Expiry.val /\ OnLockedHost)
        => LET d == call.today - Expiry.val
               g == call.grace_days
           IN  IF d <= g
               THEN /\ result.valid
                    /\ result.grace
                    /\ result.days_left = g - d
               ELSE ~result.valid

\* C6: an issued, unexpired token verified on a host other than the one it is
\* locked to is invalid, with a reason that names the hardware mismatch.
C6_HardwareMismatch ==
    (Issued /\ call.made /\ Expiry.ok /\ call.today <= Expiry.val /\ ~OnLockedHost)
        => /\ ~result.valid
           /\ result.reason.fmt = "Hardware mismatch (expected {})"

\* C7: a valid result (in grace or not) is returned only on the host whose
\* hardware id the payload holds.
C7_ValidOnlyOnLockedHost ==
    (call.made /\ result.valid)
        => /\ K_hwid \in DOMAIN result.info
           /\ result.info[K_hwid] = JStr(get_hardware_id(Machines[call.machine]))

\* a verify_license call on the token in hand with the arguments of the one before
SameArguments ==
    /\ call.made
    /\ call'.made
    /\ token' = token
    /\ secret_key' = secret_key
    /\ call'.grace_days = call.grace_days

C9_AllFieldsAlways ==
    call.made => {"valid", "grace", "days_left", "reason"} \subseteq DOMAIN result

\* C9 (amended): every result holds valid and reason; grace, days_left and info
\* are held by the valid results, and by no other.
C9_FieldsByOutcome ==
    call.made
        => /\ {"valid", "reason"} \subseteq DOMAIN result
           /\ IF result.valid
              THEN DOMAIN result = {"valid", "grace", "days_left", "reason", "info"}
              ELSE DOMAIN result = {"valid", "reason"}

\* an expired-beyond-grace result was returned
C9_Witness ==
    /\ call.made
    /\ ~result.valid
    /\ result.reason.fmt = "License and grace period expired"

\* C10: unpacking an issued token gives back the payload bytes and the tag that
\* were packed.
C10_CodecRoundTrip ==
    Issued
        => LET payload_bytes ==
                   payload_bytes_of(origin.product, origin.expiry_date,
                                    origin.max_users, origin.hwid)
               dec == decode_token(token)
           IN  /\ dec.ok
               /\ Dot \in Range(dec.val)
               /\ rsplit_dot(dec.val) = <<payload_bytes, _sign(secret_key, payload_bytes)>>

\* the characters of base64url: A-Z a-z 0-9 - _
IsUrlChar(c) ==
    \/ (c >= 65 /\ c <= 90)
    \/ (c >= 97 /\ c <= 122)
    \/ (c >= 48 /\ c <= 57)
    \/ c \in {45, 95}

\* the text, padded again, is base64url
IsUrlText(s) ==
    /\ \A i \in 1..Len(s) : IsUrlChar(s[i])
    /\ Len(s) % 4 /= 1

MalformedReasons == {"Invalid token format", "Verification failed: {}"}

\* C11: a text that is not base64url after re-padding, or whose decoded bytes
\* hold no separator, gets the malformed-input failure: valid = false, and no
\* signature, expiry or hardware verdict.
C11_MalformedTextRejected ==
    LET dec == decode_token(token)
        malformed == \/ ~IsUrlText(token)
                     \/ ~dec.ok
                     \/ Dot \notin Range(dec.val)
    IN  (call.made /\ malformed)
            => /\ ~result.valid
               /\ result.reason.fmt \in MalformedReasons

\* C12: every token generate_license returns is made of base64url characters
\* (A-Z a-z 0-9 - _) only: no "=", no whitespace, nothing outside ASCII.
C12_TokenAlphabet ==
    Issued => \A i \in 1..Len(token) : IsUrlChar(token[i])

\* an issued token that holds "-" or "_" and whose padding was stripped
C12_Witness ==
    /\ Issued
    /\ Len(token) % 4 /= 0
    /\ \E i \in 1..Len(token) : token[i] \in {45, 95}

ExpReadable(pb) ==
    LET text == utf8_decode(pb) IN
    /\ text.ok
    /\ LET js == json_loads(text.val) IN
       /\ js.ok
       /\ js.isdict
       /\ K_exp \in DOMAIN js.d
       /\ js.d[K_exp].t = "str"
       /\ strptime_date(js.d[K_exp].v).ok

\* the payload bytes encode a well-formed payload: product, exp, users and hwid
\* of the right types, exp a date
WellFormedPayload(pb) ==
    /\ ExpReadable(pb)
    /\ LET d == json_loads(utf8_decode(pb).val).d IN
       /\ {K_product, K_exp, K_users, K_hwid} \subseteq DOMAIN d
       /\ d[K_product].t = "str"
       /\ d[K_users].t = "int"
       /\ d[K_hwid].t = "str"

\* the token in hand unpacks, and its payload bytes are not a well-formed payload
UnpacksMalformed ==
    LET dec == decode_token(token) IN
    /\ dec.ok
    /\ Dot \in Range(dec.val)
    /\ ~WellFormedPayload(rsplit_dot(dec.val)[1])

\* C14 (as claimed): a token that unpacks but whose payload bytes are not a
\* well-formed payload gets the malformed-input failure, whatever its tag.
C14_PayloadBeforeSignature ==
    (call.made /\ UnpacksMalformed)
        => /\ ~result.valid
           /\ result.reason.fmt \in MalformedReasons

\* C14 (amended): the tag is compared first. A token that unpacks with a tag that
\* does not match gets "Invalid signature" whatever its payload bytes; with a
\* matching tag, payload bytes that are not UTF-8 JSON for an object with a date
\* string "exp" get "Verification failed: ..."; no other field is looked at, so
\* other ill-formed payloads get an expiry or hardware verdict.
C14_SignatureBeforePayload ==
    (call.made /\ UnpacksMalformed)
        => LET parts == rsplit_dot(decode_token(token).val) IN
           IF parts[2] /= _sign(secret_key, parts[1])
           THEN result = [valid |-> FALSE, reason |-> Reason("Invalid signature")]
           ELSE IF ~ExpReadable(parts[1])
           THEN ~result.valid /\ result.reason.fmt = "Verification failed: {}"
           ELSE result.reason.fmt \notin MalformedReasons \cup {"Invalid signature"}

\* payload bytes that are not UTF-8, under the tag of another key, were verified
C14_Witness ==
    /\ origin.kind = "signed"
    /\ call.made
    /\ LET parts == rsplit_dot(decode_token(token).val) IN
       /\ ~utf8_decode(parts[1]).ok
       /\ parts[2] /= _sign(secret_key, parts[1])
    /\ result.reason.fmt = "Invalid signature"

\* the payload bytes generate_license signed for the token in hand
IssuedPayloadBytes ==
    payload_bytes_of(origin.product, origin.expiry_date, origin.max_users, origin.hwid)

\* C15 (as claimed): the payload bytes of an issued token never hold ".".
C15_NoDotInPayload == Issued => Dot \notin Range(IssuedPayloadBytes)

\* C15 (amended): the payload bytes of an issued token hold "." exactly when the
\* caller's product, expiry string or hardware id holds one; the encoding adds
\* none and removes none.
C15_DotOnlyFromCaller ==
    Issued
        => (Dot \in Range(IssuedPayloadBytes)
               <=> Dot \in Range(origin.product) \cup Range(origin.expiry_date)
                             \cup Range(origin.hwid))

\* a token issued for a product with "." in its name, whose payload holds "."
C15_Witness ==
    /\ Issued
    /\ Dot \in Range(origin.product)
    /\ Dot \in Range(IssuedPayloadBytes)

\* the token in hand unpacks to a JSON object, and the hardware id of host mi
\* is not the object's "hwid"
HostDiffers(mi) ==
    LET dec == decode_token(token) IN
    /\ dec.ok
    /\ Dot \in Range(dec.val)
    /\ LET text == utf8_decode(rsplit_dot(dec.val)[1]) IN
       /\ text.ok
       /\ LET js == json_loads(text.val) IN
          /\ js.ok
          /\ js.isdict
          /\ \/ K_hwid \notin DOMAIN js.d
             \/ js.d[K_hwid] /= JStr(get_hardware_id(Machines[mi]))

\* C16: the result does not tell which host asked, when the host is not the
\* payload's: a call with the token, key, grace_days and date of the call
\* before, on another host whose hardware id also differs from the payload's,
\* returns what that one returned (the mismatch reason names the expected id only).
C16_MismatchHidesHost ==
    [][(/\ SameArguments
        /\ call'.today = call.today
        /\ HostDiffers(call.machine)
        /\ HostDiffers(call'.machine))
          => result' = result]_vars

\* a token that names neither host got the mismatch verdict on one of them and
\* has been carried to the other
C16_Witness ==
    /\ call.made
    /\ \A mi \in MachineIds : HostDiffers(mi)
    /\ result.reason.fmt = "Hardware mismatch (expected {})"
    /\ machine /= call.machine

\* C17: generate_license signs the product in upper case: issuing again with
\* another spelling of the product (equal in upper case) and the same expiry,
\* seats, hardware id and key gives the same token, and the info of a valid
\* result holds the product in upper case.
C17_ProductUpperCased ==
    [][/\ (origin.kind = "issued" /\ origin'.kind = "reissued") => token' = token
       /\ (origin'.kind \in {"issued", "reissued"} /\ call'.made /\ result'.valid)
              => result'.info[K_product] = JStr(upper(origin'.product))]_vars

\* a token issued again for a product spelled in lower case was found valid
C17_Witness ==
    /\ origin.kind = "reissued"
    /\ origin.product /= upper(origin.product)
    /\ call.made
    /\ result.valid
    /\ result.info[K_product] = JStr(upper(origin.product))

\* C18: a valid result has days_left >= 0, info equal to the payload decoded
\* from the token, and a token whose tag is the signature of its payload bytes;
\* in grace, 0 <= days_left < grace_days and the expiry is before the date of
\* the call; not in grace, days_left = expiry - date.
C18_ValidVerdicts ==
    (call.made /\ result.valid)
        => LET parts == rsplit_dot(decode_token(token).val)
               payload == json_loads(utf8_decode(parts[1]).val).d
               exp_date == strptime_date(payload[K_exp].v).val
           IN  /\ result.days_left >= 0
               /\ result.info = payload
               /\ parts[2] = _sign(secret_key, parts[1])
               /\ IF result.grace
                  THEN /\ result.days_left < call.grace_days
                       /\ exp_date < call.today
                  ELSE result.days_left = exp_date - call.today

\* a valid result on the first day of the grace period: days_left = grace_days - 1
C18_Witness ==
    /\ call.made
    /\ result.valid
    /\ result.grace
    /\ call.grace_days > 0
    /\ result.days_left = call.grace_days - 1
====
